---- MODULE Spec2Model ----
(***************************************************************************)
(* FreshTrack: the label scanner of src/components/BarcodeScanner.tsx      *)
(* (the component of lines 1-829): the date extraction of                  *)
(* parseDateFromText, the product name of extractProductName, and the      *)
(* label-scan flow of handleImageUpload, handleManualDateSubmit,           *)
(* handleDateCandidateSelect and saveItemToSupabase.                       *)
(* The status rule is calculateStatus of the scanner next to getItemStatus  *)
(* of src/pages/Dashboard.tsx.                                             *)
(*                                                                         *)
(* Dates.  Every Date the scanner builds comes from new Date("YYYY-MM-DD"), *)
(* which is midnight UTC of that day, so a Date is modelled by its day     *)
(* number (days since 1970-01-01, UTC).  The clock "now" is Today plus,    *)
(* when env.late, a positive time of day.  env.west says that the local    *)
(* time zone is west of UTC, where midnight UTC is the evening of the      *)
(* previous local day (getFullYear and setFullYear work on local time).    *)
(* env.lenient says that the engine's ISO parser accepts any day 1..31 and *)
(* lets it overflow into the next month (V8), as opposed to rejecting a    *)
(* day the month does not have.  Daylight-saving shifts are not modelled.  *)
(*                                                                         *)
(* Text.  An OCR text is a sequence of lines.  A line is either a          *)
(* date-shaped line (an optional label, then three numbers with            *)
(* separators) or a line of other characters.  The regular expressions are *)
(* modelled by what they match on lines of these shapes; years of three    *)
(* digits are left out of the line shapes.                                 *)
(***************************************************************************)
EXTENDS Integers, Sequences, FiniteSets, Bags, TLC

VARIABLES
    env,                  \* clock and platform: [late, west, lenient]
    mounted,              \* Dashboard.showScanner: the scanner is rendered
    scanMode,             \* useState<ScanMode>('barcode')
    isProcessing,         \* useState(false)
    dateCandidates,       \* useState<Date[]>([])
    showManualEntry,      \* useState(false)
    manualDate,           \* useState(''): <<>> or <<day>>
    detectedProductName,  \* useState('')
    nutritionData,        \* useState<NutritionData | null>(null)
    up,                   \* the handleImageUpload call in flight
    saves,                \* bag of saveItemToSupabase calls started by a click
    items,                \* bag of the rows of the items table
    parseCall,            \* one call of parseDateFromText: argument and result
    statusCall,           \* one expiry date classified by scanner and dashboard
    pureCall,             \* successive calls of parseDateFromText on one text
    scanResult,           \* useState<string | null>(null)
    productData,          \* useState<Product | null>(null)
    isScanning,           \* useState(false); scannerRef.current is set with it
    loadingNutrition,     \* useState(false)
    nutritionCache,       \* useRef(new Map()): barcode to nutrition
    scans,                \* bag of handleScanSuccess calls awaiting the fetch
    emitted,              \* the objects handed to onScanSuccess so far
    rc,                   \* a reverse_commerce_items row and its clients
    rp                    \* a retailer_products row and its clients

vars == <<env, mounted, scanMode, isProcessing, dateCandidates, showManualEntry,
          manualDate, detectedProductName, nutritionData, up, saves, items,
          parseCall, statusCall, pureCall, scanResult, productData, isScanning,
          loadingNutrition, nutritionCache, scans, emitted, rc, rp>>

\* the barcode mode of the dialog
scanVars == <<scanResult, productData, isScanning, loadingNutrition,
              nutritionCache, scans, emitted>>

\* what the dialog does not touch
sideVars == <<pureCall, rc, rp>>

-----------------------------------------------------------------------------
(* Bounds of the model *)

\* lines of the text handed to one call of parseDateFromText (SpecParse)
MaxLines == 2

\* lines all OCR passes of one scan return together (Spec)
MaxOcrLines == 1

\* rows of the items table
MaxItems == 2

\* successive calls of parseDateFromText on one text (SpecPure)
MaxCalls == 2

\* handleScanSuccess calls awaiting the answer of OpenFoodFacts
MaxFetches == 2

\* requests of the retailer's tabs on their way to or from the database
MaxRequests == 2

\* days before and after today an expiry date to classify lies (SpecStatus)
StatusSpan == 8

-----------------------------------------------------------------------------
(* Program constants *)

NumPatterns == 5
NumRotations == 5
RecencyDays == 30
UseSoonDays == 3
CriticalDays == 2
WarningDays == 5
MinYear == 2000
MaxYear == 2100

\* the day the model runs on: new Date()
Today == [y |-> 2024, m |-> 6, d |-> 10]

-----------------------------------------------------------------------------
(* The calendar behind Date *)

IsLeap(y) == (y % 4 = 0 /\ y % 100 # 0) \/ y % 400 = 0

DaysInMonth(y, m) ==
    IF m = 2 THEN (IF IsLeap(y) THEN 29 ELSE 28)
    ELSE IF m \in {4, 6, 9, 11} THEN 30 ELSE 31

\* day number of the civil date y-m-d (proleptic Gregorian, 1970-01-01 = 0)
DaysFromCivil(y, m, d) ==
    LET yy  == IF m <= 2 THEN y - 1 ELSE y
        era == yy \div 400
        yoe == yy - era * 400
        mp  == (m + 9) % 12
        doy == (153 * mp + 2) \div 5 + d - 1
        doe == yoe * 365 + yoe \div 4 - yoe \div 100 + doy
    IN  era * 146097 + doe - 719468

\* civil date of a day number
CivilFromDays(z) ==
    LET zz  == z + 719468
        era == zz \div 146097
        doe == zz - era * 146097
        yoe == (doe - doe \div 1460 + doe \div 36524 - doe \div 146096) \div 365
        doy == doe - (365 * yoe + yoe \div 4 - yoe \div 100)
        mp  == (5 * doy + 2) \div 153
        d   == doy - (153 * mp + 2) \div 5 + 1
        m   == IF mp < 10 THEN mp + 3 ELSE mp - 9
        y   == yoe + era * 400
    IN  [y |-> IF m <= 2 THEN y + 1 ELSE y, m |-> m, d |-> d]

\* ECMAScript MakeDay: day d of month m of year y, a day beyond the month's
\* end running on into the following months
MakeDay(y, m, d) == DaysFromCivil(y, m, 1) + d - 1

TodayDay == MakeDay(Today.y, Today.m, Today.d)

\* the local calendar day that holds midnight UTC of day t
LocalDay(t) == IF env.west THEN t - 1 ELSE t

\* new Date(`${year}-${mm}-${dd}`) with mm, dd padded to two digits:
\* <<>> is Invalid Date
NewDate(year, month, day) ==
    IF /\ month \in 1..12
       /\ day >= 1
       /\ day <= (IF env.lenient THEN 31 ELSE DaysInMonth(year, month))
    THEN <<MakeDay(year, month, day)>>
    ELSE <<>>

\* date.getFullYear()
GetFullYear(t) == CivilFromDays(LocalDay(t)).y

\* date.setFullYear(year): the local month and day are kept, the local time
\* of day too
SetFullYear(t, year) ==
    LET c == CivilFromDays(LocalDay(t))
    IN  MakeDay(year, c.m, c.d) + (t - LocalDay(t))

\* date-fns differenceInDays(date, new Date()): full days, truncated
\* towards zero
DifferenceInDays(t) ==
    IF t > TodayDay /\ env.late THEN t - TodayDay - 1 ELSE t - TodayDay

\* new Date().getFullYear()
CurrentYear == Today.y

-----------------------------------------------------------------------------
(* Lines of text *)

\* a date-shaped line: label, then n1 sep n2 sep n3 with n3 a year of ylen
\* digits; glued: the label touches the first digit ("MFG01/06/2024")
DateLine(txt, label, glued, n1, n2, n3, ylen) ==
    [txt |-> txt, kind |-> "date", label |-> label, glued |-> glued,
     yfirst |-> FALSE, n1 |-> n1, n2 |-> n2, n3 |-> n3, ylen |-> ylen,
     numeric |-> FALSE]

\* a line YYYY-MM-DD
IsoLine(txt, y, m, d) ==
    [txt |-> txt, kind |-> "date", label |-> "none", glued |-> FALSE,
     yfirst |-> TRUE, n1 |-> y, n2 |-> m, n3 |-> d, ylen |-> 4,
     numeric |-> FALSE]

\* a line without a date shape; numeric: digits only
WordLine(txt, numeric) ==
    [txt |-> txt, kind |-> "words", label |-> "none", glued |-> FALSE,
     yfirst |-> FALSE, n1 |-> 0, n2 |-> 0, n3 |-> 0, ylen |-> 0,
     numeric |-> numeric]

-----------------------------------------------------------------------------
(* parseDateFromText *)

\* the regular expressions of the array "patterns", by index:
\*   1  exp|expiry|expires|best before|use by, then D/M/Y with a 2-4 digit year
\*   2  mfg|manufactured|mfd|production date, then D/M/Y
\*   3  (\d{4}) sep (\d{1,2}) sep (\d{1,2}), no word boundary asked
\*   4  \b D sep M sep (\d{4}) \b
\*   5  \b D sep M sep (\d{2}) \b
\* A labelled pattern allows [:\s]* between label and digits, so it matches
\* glued or not; \b before the first digit fails when the label is glued.
PatternMatches(p, line) ==
    /\ line.kind = "date"
    /\ CASE p = 1 -> ~line.yfirst /\ line.label = "exp"
         [] p = 2 -> ~line.yfirst /\ line.label = "mfg"
         [] p = 3 -> line.yfirst
         [] p = 4 -> ~line.yfirst /\ line.ylen = 4 /\ ~line.glued
         [] p = 5 -> ~line.yfirst /\ line.ylen = 2 /\ ~line.glued

\* pattern.source.includes('mfg|manufactured')
isMfgPattern(p) == p = 2

\* pattern.source.startsWith('(\\d{4})')
isYYYYFirst(p) == p = 3

\* [, year, month, day] = match  or  [, day, month, year] = match
Captures(p, line) ==
    IF isYYYYFirst(p)
    THEN [day |-> line.n3, month |-> line.n2, year |-> line.n1, ylen |-> 4]
    ELSE [day |-> line.n1, month |-> line.n2, year |-> line.n3,
          ylen |-> line.ylen]

\* ExpandYear with every 2-digit year put in the current century
ExpandYearCurrentCentury(year, ylen) ==
    IF ylen = 2 THEN (CurrentYear \div 100) * 100 + year ELSE year

\* 2-digit years: 00-50 in the current century, 51-99 in the one before
ExpandYear(year, ylen) ==
    IF ylen = 2
    THEN LET currentCentury == (CurrentYear \div 100) * 100
         IN  IF year <= 50 THEN currentCentury + year
                           ELSE currentCentury - 100 + year
    ELSE year

\* ResolveDate with the month-day reading tried first
ResolveDateMonthFirst(year, day, month) ==
    LET date == NewDate(year, day, month)
    IN  IF date = <<>> THEN NewDate(year, month, day) ELSE date

\* day-month first, month-day when that is no date: <<>> or <<day>>
ResolveDate(year, day, month) ==
    LET date == NewDate(year, month, day)
    IN  IF date = <<>> THEN NewDate(year, day, month) ELSE date

\* !isNaN(date.getTime()) && date.getFullYear() > 2000 && < 2100
Plausible(date) ==
    /\ date # <<>>
    /\ GetFullYear(date[1]) > MinYear
    /\ GetFullYear(date[1]) < MaxYear

\* date.setFullYear(date.getFullYear() + 1)
AddShelfLife(t) == SetFullYear(t, GetFullYear(t) + 1)

\* if (daysDiff > -30)
Recent(t) == DifferenceInDays(t) > -RecencyDays

\* the body of the while loop for one match of pattern p on a line: year
\* is the year after the 2-digit expansion, parsed is the date before the shelf-life offset, resolved the date after
\* it (<<>> when the match is dropped before), pushed whether it is added
\* to foundDates
MatchOutcome(p, line) ==
    LET c      == Captures(p, line)
        year   == ExpandYear(c.year, c.ylen)
        date   == ResolveDate(year, c.day, c.month)
        ok     == Plausible(date)
        final  == IF ~ok THEN <<>>
                  ELSE IF isMfgPattern(p) THEN <<AddShelfLife(date[1])>>
                  ELSE date
    IN  [pattern |-> p, line |-> line, year |-> year, parsed |-> date,
         resolved |-> final, pushed |-> (ok /\ Recent(final[1]))]

\* MatchTrace given up at the first match that is no date
MatchTraceStopsAtInvalid(text) ==
    LET n    == Len(text)
        all  == [k \in 1..(NumPatterns * n) |->
                    [p |-> ((k - 1) \div n) + 1, i |-> ((k - 1) % n) + 1]]
        hit  == SelectSeq(all, LAMBDA h : PatternMatches(h.p, text[h.i]))
        out  == [k \in 1..Len(hit) |-> MatchOutcome(hit[k].p, text[hit[k].i])]
        bad  == {k \in 1..Len(out) : out[k].parsed = <<>>}
    IN  IF bad = {} THEN out
        ELSE SubSeq(out, 1, (CHOOSE k \in bad : \A j \in bad : k <= j) - 1)

\* MatchTrace stopping after the first pattern that matches anything
MatchTraceFirstPattern(text) ==
    LET n    == Len(text)
        all  == [k \in 1..(NumPatterns * n) |->
                    [p |-> ((k - 1) \div n) + 1, i |-> ((k - 1) % n) + 1]]
        hit  == SelectSeq(all, LAMBDA h : PatternMatches(h.p, text[h.i]))
        only == SelectSeq(hit, LAMBDA h : h.p = hit[1].p)
    IN  [k \in 1..Len(only) |-> MatchOutcome(only[k].p, text[only[k].i])]

\* every match of every pattern, pattern by pattern and, within a pattern,
\* in text order
MatchTrace(text) ==
    LET n   == Len(text)
        all == [k \in 1..(NumPatterns * n) |->
                   [p |-> ((k - 1) \div n) + 1, i |-> ((k - 1) % n) + 1]]
        hit == SelectSeq(all, LAMBDA h : PatternMatches(h.p, text[h.i]))
    IN  [k \in 1..Len(hit) |-> MatchOutcome(hit[k].p, text[hit[k].i])]

\* foundDates after the loops
FoundDates(text) ==
    LET pushed == SelectSeq(MatchTrace(text), LAMBDA o : o.pushed)
    IN  [k \in 1..Len(pushed) |-> pushed[k].resolved[1]]

\* Array.from(new Set(foundDates.map(d => d.getTime()))): first occurrences,
\* in order
RECURSIVE UniqueTimes(_)
UniqueTimes(s) ==
    IF s = <<>> THEN <<>>
    ELSE LET front == UniqueTimes(SubSeq(s, 1, Len(s) - 1))
             last  == s[Len(s)]
         IN  IF \E j \in 1..Len(front) : front[j] = last
             THEN front ELSE Append(front, last)

\* insert t into the ascending sequence s
RECURSIVE InsertAsc(_, _)
InsertAsc(s, t) ==
    IF s = <<>> THEN <<t>>
    ELSE IF t < s[1] THEN <<t>> \o s
    ELSE <<s[1]>> \o InsertAsc(Tail(s), t)

\* .sort((a, b) => a.getTime() - b.getTime())
RECURSIVE SortAsc(_)
SortAsc(s) ==
    IF s = <<>> THEN <<>>
    ELSE InsertAsc(SortAsc(SubSeq(s, 1, Len(s) - 1)), s[Len(s)])

\* uniqueDates without the sort
uniqueDatesUnsorted(found) == UniqueTimes(found)

\* uniqueDates without the Set
uniqueDatesKeepsDuplicates(found) == SortAsc(found)

\* const uniqueDates = ...; return uniqueDates
uniqueDates(found) == SortAsc(UniqueTimes(found))

parseDateFromText(text) == uniqueDates(FoundDates(text))

-----------------------------------------------------------------------------
(* calculateStatus, extractProductName *)

\* calculateStatus with the thresholds of the dashboard's warning
calculateStatusWithin5(t) ==
    LET daysUntilExpiry == DifferenceInDays(t)
    IN  IF daysUntilExpiry < 0 THEN "expired"
        ELSE IF daysUntilExpiry <= 5 THEN "use-soon"
        ELSE "safe"

calculateStatus(t) ==
    LET daysUntilExpiry == DifferenceInDays(t)
    IN  IF daysUntilExpiry < 0 THEN "expired"
        ELSE IF daysUntilExpiry <= UseSoonDays THEN "use-soon"
        ELSE "safe"

\* Dashboard.getItemStatus(expiryDate).status; the string "YYYY-MM-DD" of
\* the expiry_date column parses to midnight UTC of that day
getItemStatus(t) ==
    LET daysUntilExpiry == DifferenceInDays(t)
    IN  IF daysUntilExpiry < 0 THEN "expired"
        ELSE IF daysUntilExpiry <= CriticalDays THEN "critical"
        ELSE IF daysUntilExpiry <= WarningDays THEN "warning"
        ELSE "safe"

Placeholder == "Scanned Product"

\* what the two replace calls leave of a line, trimmed: the first removes a
\* labelled D/M/Y date (label, separators and digits), nothing else of the
\* line shapes modelled here
CleanedLine(line) ==
    IF line.kind = "date" /\ ~line.yfirst /\ line.label \in {"exp", "mfg"}
    THEN "" ELSE line.txt

\* .filter(length > 3 && length < 50).filter(not /^\d+$/)
NameLineOk(line) ==
    LET c == CleanedLine(line)
    IN  Len(c) > 3 /\ Len(c) < 50 /\ ~line.numeric

\* extractProductName returning the last surviving line
extractProductNameLast(text) ==
    LET lines == SelectSeq(text, NameLineOk)
    IN  IF lines = <<>> THEN Placeholder ELSE CleanedLine(lines[Len(lines)])

extractProductName(text) ==
    LET lines == SelectSeq(text, NameLineOk)
    IN  IF lines = <<>> THEN Placeholder ELSE CleanedLine(lines[1])

-----------------------------------------------------------------------------
(* Texts *)

\* lines handed to parseDateFromText in SpecParse (Today is 2024-06-10)
ParseLines ==
    { DateLine("15/08/2025", "none", FALSE, 15, 8, 2025, 4),
      DateLine("EXP: 15/08/2025", "exp", FALSE, 15, 8, 2025, 4),
      DateLine("01-07-2024", "none", FALSE, 1, 7, 2024, 4),
      DateLine("EXP 01-07-24", "exp", FALSE, 1, 7, 24, 2),
      DateLine("MFG: 01/07/2023", "mfg", FALSE, 1, 7, 2023, 4),
      DateLine("11/05/2024", "none", FALSE, 11, 5, 2024, 4),
      DateLine("12/05/2024", "none", FALSE, 12, 5, 2024, 4),
      DateLine("MFG: 01/06/2024", "mfg", FALSE, 1, 6, 2024, 4),
      DateLine("MFG01/06/2024", "mfg", TRUE, 1, 6, 2024, 4),
      DateLine("MFG 01/01/2099", "mfg", FALSE, 1, 1, 2099, 4),
      DateLine("01/01/2100", "none", FALSE, 1, 1, 2100, 4),
      DateLine("8/15/2025", "none", FALSE, 8, 15, 2025, 4),
      DateLine("31/04/2025", "none", FALSE, 31, 4, 2025, 4),
      DateLine("15/13/2025", "none", FALSE, 15, 13, 2025, 4),
      DateLine("01-07-75", "none", FALSE, 1, 7, 75, 2),
      DateLine("01-07-50", "none", FALSE, 1, 7, 50, 2),
      DateLine("01-07-51", "none", FALSE, 1, 7, 51, 2),
      DateLine("00/07/2025", "none", FALSE, 0, 7, 2025, 4),
      DateLine("MFG 29/02/2024", "mfg", FALSE, 29, 2, 2024, 4),
      IsoLine("2025-08-15", 2025, 8, 15),
      WordLine("Fresh Milk 500ml", FALSE) }

\* lines handed to extractProductName in SpecName: names of 3, 4, 16, 49 and
\* 50 characters, a number, and dates with and without a label
NameLines ==
    { WordLine("Tea", FALSE),
      WordLine("Milk", FALSE),
      WordLine("Fresh Milk 500ml", FALSE),
      WordLine("Organic Whole Grain Rolled Oats Family Pack 1.5kg", FALSE),
      WordLine("Organic Whole Grain Rolled Oats Family Pack 1.5 kg", FALSE),
      WordLine("8901234567890", TRUE),
      DateLine("EXP: 15/08/2025", "exp", FALSE, 15, 8, 2025, 4),
      DateLine("MFG: 01/06/2024", "mfg", FALSE, 1, 6, 2024, 4),
      DateLine("15/08/2025", "none", FALSE, 15, 8, 2025, 4),
      DateLine("01-07-50", "none", FALSE, 1, 7, 50, 2),
      IsoLine("2025-08-15", 2025, 8, 15) }

\* lines an OCR pass returns in Spec
OcrLines ==
    { DateLine("EXP: 15/08/2025", "exp", FALSE, 15, 8, 2025, 4),
      DateLine("MFG: 01/06/2024", "mfg", FALSE, 1, 6, 2024, 4),
      WordLine("Fresh Milk 500ml", FALSE) }

\* the sequences over S of length at most n
SeqsUpTo(S, n) == UNION {[1..k -> S] : k \in 0..n}

Envs == [late : BOOLEAN, west : BOOLEAN, lenient : BOOLEAN]

-----------------------------------------------------------------------------
(* SpecParse: parseDateFromText and extractProductName applied to a text, *)
(* as handleImageUpload applies them to allText *)

NoCall ==
    [text |-> <<>>, done |-> FALSE, dates |-> <<>>, trace |-> <<>>, name |-> ""]

NoStatus == [date |-> 0, done |-> FALSE, scanner |-> "", dashboard |-> ""]

NoPure ==
    [text |-> <<>>, calls |-> <<>>, matchers |-> [p \in 1..NumPatterns |-> 0]]

\* browser tabs in which one retailer is signed in
Clients == {"tab1", "tab2"}

\* reverse_commerce_items before classifyProduct has inserted the row that
\* is followed: its status, the status each tab displays for it, and the
\* requests on their way to or from the database
NoRow ==
    [status |-> "none", view |-> [c \in Clients |-> "none"], req |-> EmptyBag]

\* retailer_products before addProduct has inserted the row that is
\* followed: the row, the row each tab displays, and the requests on their
\* way to or from the database
NoProduct ==
    [row |-> <<>>, view |-> [c \in Clients |-> <<>>], req |-> EmptyBag]

\* nothing in flight, and the harnesses other than the one a specification
\* uses at rest
Idle ==
    /\ scans = EmptyBag
    /\ emitted = {}
    /\ pureCall = NoPure
    /\ rc = NoRow
    /\ rp = NoProduct

ComponentInit ==
    /\ scanMode = "barcode"
    /\ isProcessing = FALSE
    /\ dateCandidates = <<>>
    /\ showManualEntry = FALSE
    /\ manualDate = <<>>
    /\ detectedProductName = ""
    /\ nutritionData = "null"
    /\ scanResult = "null"
    /\ productData = "null"
    /\ isScanning = FALSE
    /\ loadingNutrition = FALSE
    /\ nutritionCache = {}

IdleUpload ==
    [pc |-> "idle", rot |-> 0, text |-> <<>>, dates |-> <<>>, name |-> "",
     outcome |-> "none", orphan |-> FALSE, abandoned |-> FALSE]

InitParse ==
    /\ env \in Envs
    /\ mounted = FALSE
    /\ ComponentInit
    /\ up = IdleUpload
    /\ saves = EmptyBag
    /\ items = EmptyBag
    /\ statusCall = NoStatus
    /\ Idle
    /\ \E t \in SeqsUpTo(ParseLines, MaxLines) :
           parseCall = [NoCall EXCEPT !.text = t]

CallParse ==
    /\ ~parseCall.done
    /\ parseCall' = [parseCall EXCEPT !.done = TRUE,
                                      !.dates = parseDateFromText(parseCall.text),
                                      !.trace = MatchTrace(parseCall.text),
                                      !.name = extractProductName(parseCall.text)]
    /\ UNCHANGED <<env, mounted, scanMode, isProcessing, dateCandidates,
                   showManualEntry, manualDate, detectedProductName,
                   nutritionData, up, saves, items, statusCall, scanVars, sideVars>>

NextParse == CallParse

SpecParse == InitParse /\ [][NextParse]_vars

\* SpecName: the same call on texts chosen for extractProductName
InitName ==
    /\ env \in Envs
    /\ mounted = FALSE
    /\ ComponentInit
    /\ up = IdleUpload
    /\ saves = EmptyBag
    /\ items = EmptyBag
    /\ statusCall = NoStatus
    /\ Idle
    /\ \E t \in SeqsUpTo(NameLines, MaxLines) :
           parseCall = [NoCall EXCEPT !.text = t]

SpecName == InitName /\ [][NextParse]_vars

-----------------------------------------------------------------------------
(* SpecPure: parseDateFromText called again and again on one text, with the *)
(* state of its regular expression objects.  A position in the text is the  *)
(* index of a line.                                                         *)

\* the matches pattern.exec(text) returns, call after call, for a pattern
\* whose lastIndex is behind line "from": the lines after it the pattern
\* matches
ExecFrom(p, text, from) ==
    SelectSeq([i \in 1..Len(text) |-> i],
              LAMBDA i : i > from /\ PatternMatches(p, text[i]))

\* the loop of one pattern: pattern.lastIndex = 0, then exec until it
\* returns null, which leaves lastIndex at 0
PatternLoop(p, text, lastIndex) ==
    [hits |-> ExecFrom(p, text, 0), lastIndex |-> 0]

\* foundDates, given the lines each pattern hit
FoundByHits(text, hits) ==
    LET n    == Len(text)
        all  == [k \in 1..(NumPatterns * n) |->
                    [p |-> ((k - 1) \div n) + 1, i |-> ((k - 1) % n) + 1]]
        hit  == SelectSeq(all, LAMBDA h : \E j \in 1..Len(hits[h.p]) :
                                             hits[h.p][j] = h.i)
        out  == [k \in 1..Len(hit) |-> MatchOutcome(hit[k].p, text[hit[k].i])]
        kept == SelectSeq(out, LAMBDA o : o.pushed)
    IN  [k \in 1..Len(kept) |-> kept[k].resolved[1]]

\* parseDateFromText with regular expressions kept between the calls and
\* executed once each, from where the call before left them
parseInvocationSharedMatchers(text, left) ==
    LET once == [p \in 1..NumPatterns |->
                    LET h == ExecFrom(p, text, left[p])
                    IN  IF h = <<>> THEN [hits |-> <<>>, lastIndex |-> 0]
                        ELSE [hits |-> <<h[1]>>, lastIndex |-> h[1]]]
    IN  [dates    |-> uniqueDates(FoundByHits(text,
                          [p \in 1..NumPatterns |-> once[p].hits])),
         matchers |-> [p \in 1..NumPatterns |-> once[p].lastIndex]]

\* one call of parseDateFromText; left is the lastIndex of the regular
\* expressions of the call before, which this call does not use: the array
\* "patterns" is built from literals inside the function, fresh objects with
\* lastIndex 0 at every call
parseInvocation(text, left) ==
    LET fresh == [p \in 1..NumPatterns |-> 0]
        loops == [p \in 1..NumPatterns |-> PatternLoop(p, text, fresh[p])]
    IN  [dates    |-> uniqueDates(FoundByHits(text,
                          [p \in 1..NumPatterns |-> loops[p].hits])),
         matchers |-> [p \in 1..NumPatterns |-> loops[p].lastIndex]]

\* texts of SpecPure
PureLines ==
    OcrLines \cup { DateLine("15/08/2025", "none", FALSE, 15, 8, 2025, 4),
                    DateLine("01-07-2024", "none", FALSE, 1, 7, 2024, 4) }

InitPure ==
    /\ env \in Envs
    /\ mounted = FALSE
    /\ ComponentInit
    /\ up = IdleUpload
    /\ saves = EmptyBag
    /\ items = EmptyBag
    /\ parseCall = NoCall
    /\ statusCall = NoStatus
    /\ scans = EmptyBag
    /\ emitted = {}
    /\ rc = NoRow
    /\ rp = NoProduct
    /\ \E t \in SeqsUpTo(PureLines, MaxLines) :
           pureCall = [NoPure EXCEPT !.text = t]

Invoke ==
    /\ Len(pureCall.calls) < MaxCalls
    /\ LET r == parseInvocation(pureCall.text, pureCall.matchers)
       IN  pureCall' = [pureCall EXCEPT !.calls = Append(@, r.dates),
                                        !.matchers = r.matchers]
    /\ UNCHANGED <<env, mounted, scanMode, isProcessing, dateCandidates,
                   showManualEntry, manualDate, detectedProductName,
                   nutritionData, up, saves, items, parseCall, statusCall,
                   scanVars, rc, rp>>

NextPure == Invoke

SpecPure == InitPure /\ [][NextPure]_vars

-----------------------------------------------------------------------------
(* SpecStatus: one expiry date classified by calculateStatus and by *)
(* getItemStatus *)

InitStatus ==
    /\ env \in Envs
    /\ mounted = FALSE
    /\ ComponentInit
    /\ up = IdleUpload
    /\ saves = EmptyBag
    /\ items = EmptyBag
    /\ parseCall = NoCall
    /\ Idle
    /\ \E t \in (TodayDay - StatusSpan)..(TodayDay + StatusSpan) :
           statusCall = [NoStatus EXCEPT !.date = t]

Classify ==
    /\ ~statusCall.done
    /\ statusCall' = [statusCall EXCEPT
                         !.done = TRUE,
                         !.scanner = calculateStatus(statusCall.date),
                         !.dashboard = getItemStatus(statusCall.date)]
    /\ UNCHANGED <<env, mounted, scanMode, isProcessing, dateCandidates,
                   showManualEntry, manualDate, detectedProductName,
                   nutritionData, up, saves, items, parseCall, scanVars,
                   sideVars>>

NextStatus == Classify

SpecStatus == InitStatus /\ [][NextStatus]_vars

-----------------------------------------------------------------------------
(* Spec: the label-scan flow of the scanner dialog *)

\* dates the user types into the manual date input
ManualDates == {MakeDay(2024, 6, 30)}

ManualInputs == {<<>>} \cup {<<d>> : d \in ManualDates}

\* The flow reads the clock and the platform only through parseDateFromText,
\* and on OcrLines neither the time of day, nor the leniency of the date
\* parser, nor the time zone changes its result: Spec runs at midnight UTC on
\* a strict engine east of Greenwich, SpecParse covers the rest.
FlowEnvs == {e \in Envs : ~e.late /\ ~e.lenient /\ ~e.west}

Init ==
    /\ env \in FlowEnvs
    /\ mounted = FALSE
    /\ ComponentInit
    /\ up = IdleUpload
    /\ saves = EmptyBag
    /\ items = EmptyBag
    /\ parseCall = NoCall
    /\ statusCall = NoStatus
    /\ Idle

\* calls that may still insert a row
InFlight == BagCardinality(saves) + (IF up.pc = "idle" THEN 0 ELSE 1)

HasRoom == BagCardinality(items) + InFlight < MaxItems

\* Disposition with the first of several dates taken without asking
DispositionGuessFirst(dates) ==
    IF Len(dates) = 0 THEN "manual" ELSE "auto"

\* Disposition with a single date put to the user as well
DispositionAlwaysAsk(dates) ==
    IF Len(dates) = 0 THEN "manual" ELSE "choose"

\* Disposition without the branch on dates.length === 0
DispositionNoManual(dates) ==
    IF Len(dates) = 1 THEN "auto" ELSE "choose"

\* the three branches on dates.length in handleImageUpload
Disposition(dates) ==
    IF Len(dates) = 0 THEN "manual"
    ELSE IF Len(dates) = 1 THEN "auto"
    ELSE "choose"

\* the object handed to supabase.from('items').insert; via, ncand and
\* abandoned record which call built it
Row(name, expiryDate, nutrition, via, ncand, abandoned) ==
    [name |-> name, purchase_date |-> TodayDay, expiry_date |-> expiryDate,
     barcode |-> "null", nutrition |-> nutrition,
     via |-> via, ncand |-> ncand, abandoned |-> abandoned]

\* a saveItemToSupabase call started by a click and awaiting getUser or the
\* insert: nothing the call reads or writes changes between the two awaits,
\* so they are one pending state
SaveTask(src, name, date, nutrition, ncand) ==
    [src |-> src, name |-> name, date |-> date,
     nutrition |-> nutrition, ncand |-> ncand, orphan |-> FALSE]

\* the calls of a dialog that has been unmounted: their setState calls no
\* longer reach a component
OrphanedUpload(u) ==
    IF u.pc = "idle" THEN IdleUpload
    ELSE [u EXCEPT !.orphan = TRUE,
                   !.abandoned = u.abandoned \/ u.pc \in {"pre", "ocr"}]

OrphanedSaves(b) ==
    LET T == {[t EXCEPT !.orphan = TRUE] : t \in BagToSet(b)}
    IN  [u \in T |-> CopiesIn(u, b) + CopiesIn([u EXCEPT !.orphan = FALSE], b)]

\* handleImageUpload has returned; outcome, dates and name record what the
\* call found for the view it leaves behind: name is the product name it
\* read from its text when it ends in the candidate list or in manual entry
FinishedUpload(u, outcome) ==
    IF u.orphan THEN IdleUpload
    ELSE [IdleUpload EXCEPT
            !.outcome = outcome,
            !.dates = u.dates,
            !.name = IF outcome \in {"manual", "choose"}
                     THEN extractProductName(u.text) ELSE ""]

ResetComponent ==
    /\ scanMode' = "barcode"
    /\ isProcessing' = FALSE
    /\ dateCandidates' = <<>>
    /\ showManualEntry' = FALSE
    /\ manualDate' = <<>>
    /\ detectedProductName' = ""
    /\ nutritionData' = "null"
    /\ scanResult' = "null"
    /\ productData' = "null"
    /\ isScanning' = FALSE
    /\ loadingNutrition' = FALSE
    /\ nutritionCache' = {}

\* Dashboard's onClose: setShowScanner(false) unmounts the scanner
Unmount(newUp, newSaves) ==
    /\ mounted' = FALSE
    /\ ResetComponent
    /\ up' = OrphanedUpload(newUp)
    /\ saves' = OrphanedSaves(newSaves)
    /\ scans' = OrphanedSaves(scans)

\* Dashboard: setShowScanner(true); the effect of the mounted scanner starts
\* the camera (startScanner)
Open ==
    /\ ~mounted
    /\ mounted' = TRUE
    /\ isScanning' = TRUE
    /\ UNCHANGED <<env, scanMode, isProcessing, dateCandidates, showManualEntry,
                   manualDate, detectedProductName, nutritionData, up, saves,
                   items, parseCall, statusCall, scanResult, productData,
                   loadingNutrition, nutritionCache, scans, emitted, sideVars>>

\* the X button of the dialog
Close ==
    /\ mounted
    /\ Unmount(up, saves)
    /\ UNCHANGED <<env, items, parseCall, statusCall, emitted, sideVars>>

\* the Barcode and Photo OCR buttons: setScanMode, setScanResult(null),
\* setProductData(null); when the mode changes the effect's cleanup stops the
\* camera and, in barcode mode, the effect starts it again
SetScanMode(mode) ==
    /\ mounted
    /\ ~isProcessing
    /\ scanMode' = mode
    /\ scanResult' = "null"
    /\ productData' = "null"
    /\ isScanning' = IF mode = scanMode THEN isScanning ELSE mode = "barcode"
    /\ UNCHANGED <<env, mounted, isProcessing, dateCandidates, showManualEntry,
                   manualDate, detectedProductName, nutritionData, up, saves,
                   items, parseCall, statusCall,
                   loadingNutrition, nutritionCache, scans, emitted, sideVars>>

\* handleImageUpload up to await preprocessImage(file); the file input is
\* rendered only in the upload view
StartUpload ==
    /\ mounted
    /\ scanMode = "image"
    /\ ~isProcessing
    /\ dateCandidates = <<>>
    /\ ~showManualEntry
    /\ up.pc = "idle"
    /\ HasRoom
    /\ isProcessing' = TRUE
    /\ dateCandidates' = <<>>
    /\ showManualEntry' = FALSE
    /\ up' = [IdleUpload EXCEPT !.pc = "pre"]
    /\ UNCHANGED <<env, mounted, scanMode, manualDate, detectedProductName,
                   nutritionData, saves, items, parseCall,
                   statusCall, scanVars, sideVars>>

\* the catch block of handleImageUpload without setIsProcessing(false)
UploadFailedStaysProcessing ==
    /\ up' = FinishedUpload(up, "error")
    /\ IF up.orphan
       THEN UNCHANGED showManualEntry
       ELSE showManualEntry' = TRUE
    /\ UNCHANGED <<env, mounted, scanMode, isProcessing, dateCandidates,
                   manualDate, detectedProductName, nutritionData, saves,
                   items, parseCall, statusCall, scanVars, sideVars>>

\* the catch block of handleImageUpload
UploadFailed ==
    /\ up' = FinishedUpload(up, "error")
    /\ IF up.orphan
       THEN UNCHANGED <<showManualEntry, isProcessing>>
       ELSE showManualEntry' = TRUE /\ isProcessing' = FALSE
    /\ UNCHANGED <<env, mounted, scanMode, dateCandidates, manualDate,
                   detectedProductName, nutritionData, saves, items, parseCall,
                   statusCall, scanVars, sideVars>>

\* preprocessImage resolves
PreprocessDone ==
    /\ up.pc = "pre"
    /\ up' = [up EXCEPT !.pc = "ocr", !.rot = 0]
    /\ UNCHANGED <<env, mounted, scanMode, isProcessing, dateCandidates,
                   showManualEntry, manualDate, detectedProductName,
                   nutritionData, saves, items, parseCall,
                   statusCall, scanVars, sideVars>>

\* preprocessImage rejects (img.onerror, no canvas context)
PreprocessFailed ==
    /\ up.pc = "pre"
    /\ UploadFailed

\* performOCR throws
OcrFailed ==
    /\ up.pc = "ocr"
    /\ UploadFailed

\* performOCR resolves for a rotation that is not the last: allText += text
OcrPass(chunk) ==
    /\ up.pc = "ocr"
    /\ up.rot < NumRotations - 1
    /\ Len(up.text) + Len(chunk) <= MaxOcrLines
    /\ up' = [up EXCEPT !.rot = up.rot + 1, !.text = up.text \o chunk]
    /\ UNCHANGED <<env, mounted, scanMode, isProcessing, dateCandidates,
                   showManualEntry, manualDate, detectedProductName,
                   nutritionData, saves, items, parseCall,
                   statusCall, scanVars, sideVars>>

\* performOCR resolves for the last rotation: the rest of the try block up
\* to its return, or to the first await of saveItemToSupabase
OcrLast(chunk) ==
    /\ up.pc = "ocr"
    /\ up.rot = NumRotations - 1
    /\ Len(up.text) + Len(chunk) <= MaxOcrLines
    /\ LET allText == up.text \o chunk
           dates   == parseDateFromText(allText)
           branch  == Disposition(dates)
           u       == [up EXCEPT !.text = allText, !.dates = dates]
       IN  CASE branch = "manual" ->
                  /\ up' = FinishedUpload(u, "manual")
                  /\ IF up.orphan
                     THEN UNCHANGED <<showManualEntry, detectedProductName,
                                      isProcessing>>
                     ELSE /\ showManualEntry' = TRUE
                          /\ detectedProductName' = extractProductName(allText)
                          /\ isProcessing' = FALSE
                  /\ UNCHANGED dateCandidates
             [] branch = "auto" ->
                  /\ up' = [u EXCEPT !.pc = "save", !.outcome = "auto",
                                     !.name = extractProductName(allText)]
                  /\ UNCHANGED <<showManualEntry, detectedProductName,
                                 isProcessing, dateCandidates>>
             [] branch = "choose" ->
                  /\ up' = FinishedUpload(u, "choose")
                  /\ IF up.orphan
                     THEN UNCHANGED <<dateCandidates, detectedProductName,
                                      isProcessing>>
                     ELSE /\ dateCandidates' = dates
                          /\ detectedProductName' = extractProductName(allText)
                          /\ isProcessing' = FALSE
                  /\ UNCHANGED showManualEntry
    /\ UNCHANGED <<env, mounted, scanMode, manualDate, nutritionData, saves,
                   items, parseCall,
                   statusCall, scanVars, sideVars>>

\* the auto-save returns without a row (no user, getUser throws, or the
\* insert answers with an error); then setIsProcessing(false)
UploadSaveFailed ==
    /\ up.pc = "save"
    /\ up' = FinishedUpload(up, "auto")
    /\ IF up.orphan THEN UNCHANGED isProcessing ELSE isProcessing' = FALSE
    /\ UNCHANGED <<env, mounted, scanMode, dateCandidates, showManualEntry,
                   manualDate, detectedProductName, nutritionData, saves,
                   items, parseCall,
                   statusCall, scanVars, sideVars>>

\* the insert of the auto-save succeeds: toast, onClose()
UploadInserted ==
    /\ up.pc = "save"
    /\ items' = items (+) SetToBag({Row(up.name, up.dates[1], "null", "auto",
                                         Len(up.dates), up.abandoned)})
    /\ Unmount(IdleUpload, saves)
    /\ UNCHANGED <<env, parseCall, statusCall, emitted, sideVars>>

\* a candidate button: handleDateCandidateSelect(date) up to the first await
CandidateSelect(i) ==
    /\ mounted
    /\ scanMode = "image"
    /\ i \in 1..Len(dateCandidates)
    /\ HasRoom
    /\ saves' = saves (+) SetToBag({SaveTask("select", detectedProductName,
                                             dateCandidates[i], nutritionData,
                                             Len(dateCandidates))})
    /\ UNCHANGED <<env, mounted, scanMode, isProcessing, dateCandidates,
                   showManualEntry, manualDate, detectedProductName,
                   nutritionData, up, items, parseCall,
                   statusCall, scanVars, sideVars>>

\* NoneOfThese without setDateCandidates([])
NoneOfTheseKeepsList ==
    /\ mounted
    /\ scanMode = "image"
    /\ Len(dateCandidates) > 0
    /\ showManualEntry' = TRUE
    /\ UNCHANGED <<env, mounted, scanMode, isProcessing, dateCandidates,
                   manualDate, detectedProductName, nutritionData, up, saves,
                   items, parseCall,
                   statusCall, scanVars, sideVars>>

\* "None of these? Enter manually"
NoneOfThese ==
    /\ mounted
    /\ scanMode = "image"
    /\ Len(dateCandidates) > 0
    /\ dateCandidates' = <<>>
    /\ showManualEntry' = TRUE
    /\ UNCHANGED <<env, mounted, scanMode, isProcessing, manualDate,
                   detectedProductName, nutritionData, up, saves, items,
                   parseCall, statusCall, scanVars, sideVars>>

\* the manual entry view is rendered
ManualView ==
    mounted /\ scanMode = "image" /\ dateCandidates = <<>> /\ showManualEntry

\* onChange of the date input
SetManualDate(v) ==
    /\ ManualView
    /\ manualDate' = v
    /\ UNCHANGED <<env, mounted, scanMode, isProcessing, dateCandidates,
                   showManualEntry, detectedProductName, nutritionData, up,
                   saves, items, parseCall,
                   statusCall, scanVars, sideVars>>

\* "Add Item": handleManualDateSubmit up to the first await
ManualSubmit ==
    /\ ManualView
    /\ manualDate # <<>>
    /\ HasRoom
    /\ saves' = saves (+) SetToBag({SaveTask("manual",
                   IF detectedProductName = "" THEN Placeholder
                                               ELSE detectedProductName,
                   manualDate[1], "null", 0)})
    /\ UNCHANGED <<env, mounted, scanMode, isProcessing, dateCandidates,
                   showManualEntry, manualDate, detectedProductName,
                   nutritionData, up, items, parseCall,
                   statusCall, scanVars, sideVars>>

\* "Cancel" of the manual entry view
ManualCancel ==
    /\ ManualView
    /\ showManualEntry' = FALSE
    /\ manualDate' = <<>>
    /\ UNCHANGED <<env, mounted, scanMode, isProcessing, dateCandidates,
                   detectedProductName, nutritionData, up, saves, items,
                   parseCall, statusCall, scanVars, sideVars>>

\* a clicked save returns without a row (no user, getUser throws, or the
\* insert answers with an error); then the rest of its handler:
\* setDateCandidates([]) or setShowManualEntry(false), setManualDate('')
SaveFailed(t) ==
    /\ t \in BagToSet(saves)
    /\ saves' = saves (-) SetToBag({t})
    /\ CASE t.orphan ->
              UNCHANGED <<dateCandidates, showManualEntry, manualDate>>
         [] ~t.orphan /\ t.src = "select" ->
              /\ dateCandidates' = <<>>
              /\ UNCHANGED <<showManualEntry, manualDate>>
         [] ~t.orphan /\ t.src = "manual" ->
              /\ showManualEntry' = FALSE
              /\ manualDate' = <<>>
              /\ UNCHANGED dateCandidates
    /\ UNCHANGED <<env, mounted, scanMode, isProcessing, detectedProductName,
                   nutritionData, up, items, parseCall,
                   statusCall, scanVars, sideVars>>

\* the insert of a clicked save succeeds: toast, onClose()
SaveInserted(t) ==
    /\ t \in BagToSet(saves)
    /\ items' = items (+) SetToBag({Row(t.name, t.date, t.nutrition, t.src,
                                         t.ncand, FALSE)})
    /\ Unmount(up, saves (-) SetToBag({t}))
    /\ UNCHANGED <<env, parseCall, statusCall, emitted, sideVars>>

OcrChunks == SeqsUpTo(OcrLines, MaxOcrLines)

Next ==
    \/ Open
    \/ Close
    \/ \E mode \in {"barcode", "image"} : SetScanMode(mode)
    \/ StartUpload
    \/ PreprocessDone
    \/ PreprocessFailed
    \/ OcrFailed
    \/ \E chunk \in OcrChunks : OcrPass(chunk)
    \/ \E chunk \in OcrChunks : OcrLast(chunk)
    \/ UploadSaveFailed
    \/ UploadInserted
    \/ \E i \in 1..Len(dateCandidates) : CandidateSelect(i)
    \/ NoneOfThese
    \/ \E v \in ManualInputs : SetManualDate(v)
    \/ ManualSubmit
    \/ ManualCancel
    \/ \E t \in BagToSet(saves) : SaveFailed(t)
    \/ \E t \in BagToSet(saves) : SaveInserted(t)

Spec == Init /\ [][Next]_vars

\* an awaited call of handleImageUpload returns or throws
UploadStep ==
    \/ PreprocessDone
    \/ PreprocessFailed
    \/ OcrFailed
    \/ \E chunk \in OcrChunks : OcrPass(chunk)
    \/ \E chunk \in OcrChunks : OcrLast(chunk)
    \/ UploadSaveFailed
    \/ UploadInserted

\* the label-scan flow in which no awaited call of handleImageUpload stays
\* pending for ever
SpecLive == Init /\ [][Next]_vars /\ WF_vars(UploadStep)

-----------------------------------------------------------------------------
(* SpecBarcode: the barcode flow of the scanner dialog; SpecSession: both  *)
(* flows in one dialog                                                      *)

\* barcodes the camera decodes: one of mockProductDatabase, one that is not
Barcodes == {"8901030804521", "4006381333931"}

\* mockProductDatabase[barcode], or the generic product of an unknown barcode
ProductOf(barcode) ==
    IF barcode = "8901030804521" THEN "Organic Whole Wheat Bread"
    ELSE "Product 333931"

\* the NutritionData object built from the OpenFoodFacts answer for a barcode
NutritionOf(barcode) ==
    IF barcode = "8901030804521" THEN "nutrition of 8901030804521"
    ELSE "nutrition of 4006381333931"

\* a handleScanSuccess call awaiting fetch or response.json in
\* fetchNutritionData
ScanTask(barcode) == [barcode |-> barcode, orphan |-> FALSE]

\* the camera decodes a barcode: handleScanSuccess up to the fetch, or to
\* its end when the barcode is in nutritionCache (the await of the cached
\* value resumes before any other event)
ScanSuccess(barcode) ==
    /\ mounted
    /\ isScanning
    /\ scanResult' = barcode
    /\ isScanning' = FALSE
    /\ IF barcode \in nutritionCache
       THEN /\ productData' = ProductOf(barcode)
            /\ UNCHANGED <<loadingNutrition, scans>>
       ELSE /\ BagCardinality(scans) < MaxFetches
            /\ loadingNutrition' = TRUE
            /\ scans' = scans (+) SetToBag({ScanTask(barcode)})
            /\ UNCHANGED productData
    /\ UNCHANGED <<env, mounted, scanMode, isProcessing, dateCandidates,
                   showManualEntry, manualDate, detectedProductName,
                   nutritionData, up, saves, items, parseCall, statusCall,
                   nutritionCache, emitted, sideVars>>

\* OpenFoodFacts answers with status 1 and a product: the entry is cached,
\* setNutritionData, setLoadingNutrition(false), then the rest of
\* handleScanSuccess: setProductData
FetchFound(t) ==
    /\ t \in BagToSet(scans)
    /\ scans' = scans (-) SetToBag({t})
    /\ IF t.orphan
       THEN UNCHANGED <<nutritionCache, nutritionData, loadingNutrition,
                        productData>>
       ELSE /\ nutritionCache' = nutritionCache \cup {t.barcode}
            /\ nutritionData' = NutritionOf(t.barcode)
            /\ loadingNutrition' = FALSE
            /\ productData' = ProductOf(t.barcode)
    /\ UNCHANGED <<env, mounted, scanMode, isProcessing, dateCandidates,
                   showManualEntry, manualDate, detectedProductName, up, saves,
                   items, parseCall, statusCall, scanResult, isScanning,
                   emitted, sideVars>>

\* OpenFoodFacts does not know the barcode, or fetch or json throws:
\* fetchNutritionData returns null after setLoadingNutrition(false), then
\* the rest of handleScanSuccess: setProductData
FetchMissing(t) ==
    /\ t \in BagToSet(scans)
    /\ scans' = scans (-) SetToBag({t})
    /\ IF t.orphan
       THEN UNCHANGED <<loadingNutrition, productData>>
       ELSE /\ loadingNutrition' = FALSE
            /\ productData' = ProductOf(t.barcode)
    /\ UNCHANGED <<env, mounted, scanMode, isProcessing, dateCandidates,
                   showManualEntry, manualDate, detectedProductName,
                   nutritionData, up, saves, items, parseCall, statusCall,
                   scanResult, isScanning, nutritionCache, emitted, sideVars>>

\* "Scan Again": setScanResult(null), setProductData(null), startScanner();
\* the qr-reader element is not rendered while scanResult is set, so
\* whether Html5QrcodeScanner.render starts the camera or throws before
\* setIsScanning(true) is left to the library
ScanAgain(started) ==
    /\ mounted
    /\ scanMode = "barcode"
    /\ scanResult # "null"
    /\ scanResult' = "null"
    /\ productData' = "null"
    /\ isScanning' = started
    /\ UNCHANGED <<env, mounted, scanMode, isProcessing, dateCandidates,
                   showManualEntry, manualDate, detectedProductName,
                   nutritionData, up, saves, items, parseCall, statusCall,
                   loadingNutrition, nutritionCache, scans, emitted, sideVars>>

\* "Use This Product": handleUseProduct hands the product to Dashboard's
\* onScanSuccess, which closes the scanner
UseProduct ==
    /\ mounted
    /\ scanMode = "barcode"
    /\ scanResult # "null"
    /\ productData # "null"
    /\ emitted' = {[product |-> productData, barcode |-> scanResult]}
    /\ Unmount(up, saves)
    /\ UNCHANGED <<env, items, parseCall, statusCall, sideVars>>

NextBarcode ==
    \/ Open
    \/ Close
    \/ \E mode \in {"barcode", "image"} : SetScanMode(mode)
    \/ \E barcode \in Barcodes : ScanSuccess(barcode)
    \/ \E t \in BagToSet(scans) : FetchFound(t)
    \/ \E t \in BagToSet(scans) : FetchMissing(t)
    \/ \E started \in BOOLEAN : ScanAgain(started)
    \/ UseProduct

SpecBarcode == Init /\ [][NextBarcode]_vars

\* the dialog is opened while no call of an earlier dialog is pending and
\* nothing has been saved or handed over
OpenSession ==
    /\ InFlight = 0
    /\ scans = EmptyBag
    /\ items = EmptyBag
    /\ emitted = {}
    /\ Open

\* one dialog session with both flows, and the calls it leaves behind
NextSession ==
    \/ OpenSession
    \/ Close
    \/ \E mode \in {"barcode", "image"} : SetScanMode(mode)
    \/ \E barcode \in Barcodes : ScanSuccess(barcode)
    \/ \E t \in BagToSet(scans) : FetchFound(t)
    \/ \E t \in BagToSet(scans) : FetchMissing(t)
    \/ \E started \in BOOLEAN : ScanAgain(started)
    \/ UseProduct
    \/ StartUpload
    \/ PreprocessDone
    \/ PreprocessFailed
    \/ OcrFailed
    \/ \E chunk \in OcrChunks : OcrPass(chunk)
    \/ \E chunk \in OcrChunks : OcrLast(chunk)
    \/ UploadSaveFailed
    \/ UploadInserted
    \/ \E i \in 1..Len(dateCandidates) : CandidateSelect(i)
    \/ NoneOfThese
    \/ \E v \in ManualInputs : SetManualDate(v)
    \/ ManualSubmit
    \/ ManualCancel
    \/ \E t \in BagToSet(saves) : SaveFailed(t)
    \/ \E t \in BagToSet(saves) : SaveInserted(t)

SpecSession == Init /\ [][NextSession]_vars

\* an image is uploaded while no clicked save is pending
UploadAlone ==
    /\ saves = EmptyBag
    /\ StartUpload

\* the label flow with one scan attempt at a time: a dialog is opened only
\* while nothing is pending or saved and an upload starts only while no save
\* is pending, so all pending saves and all rows come from one attempt
NextAttempt ==
    \/ OpenSession
    \/ Close
    \/ \E mode \in {"barcode", "image"} : SetScanMode(mode)
    \/ UploadAlone
    \/ PreprocessDone
    \/ PreprocessFailed
    \/ OcrFailed
    \/ \E chunk \in OcrChunks : OcrPass(chunk)
    \/ \E chunk \in OcrChunks : OcrLast(chunk)
    \/ UploadSaveFailed
    \/ UploadInserted
    \/ \E i \in 1..Len(dateCandidates) : CandidateSelect(i)
    \/ NoneOfThese
    \/ \E v \in ManualInputs : SetManualDate(v)
    \/ ManualSubmit
    \/ ManualCancel
    \/ \E t \in BagToSet(saves) : SaveFailed(t)
    \/ \E t \in BagToSet(saves) : SaveInserted(t)

SpecAttempt == Init /\ [][NextAttempt]_vars

-----------------------------------------------------------------------------
(* SpecReverse: one reverse_commerce_items row and the tabs of ReverseCommerceHub *)

\* everything but rc and rp
dialogVars ==
    <<env, mounted, scanMode, isProcessing, dateCandidates, showManualEntry,
      manualDate, detectedProductName, nutritionData, up, saves, items,
      parseCall, statusCall, scanVars, pureCall>>

\* a request: kind "select" with data "sent" before the database has read
\* the table and the rows read after it, kind "write" with the update or
\* insert to apply
Request(kind, client, data) == [kind |-> kind, client |-> client, data |-> data]

\* the tab sends a request
Sent(table, r) == [table EXCEPT !.req = @ (+) SetToBag({r})]

\* a request is answered, and its handler may send the next one
Answered(table, r, next) ==
    [table EXCEPT !.req = (@ (-) SetToBag({r})) (+) SetToBag(next)]

\* fetchData up to the select on reverse_commerce_items (mount of the hub)
fetchData(c) ==
    /\ BagCardinality(rc.req) < MaxRequests
    /\ rc' = Sent(rc, Request("select", c, "sent"))
    /\ UNCHANGED <<dialogVars, rp>>

\* classifyProduct: the insert leaves status at its default 'pending'; then
\* fetchData()
classifyProduct(c) ==
    /\ rc.status = "none"
    /\ BagCardinality(rc.req) < MaxRequests
    /\ rc' = [Sent(rc, Request("select", c, "sent")) EXCEPT !.status = "pending"]
    /\ UNCHANGED <<dialogVars, rp>>

\* the database reads the table for a select
SelectRead(r) ==
    /\ r \in BagToSet(rc.req)
    /\ r.kind = "select"
    /\ r.data = "sent"
    /\ rc' = Answered(rc, r, {Request("select", r.client, rc.status)})
    /\ UNCHANGED <<dialogVars, rp>>

\* the rows arrive: setReverseItems
SelectDelivered(r) ==
    /\ r \in BagToSet(rc.req)
    /\ r.kind = "select"
    /\ r.data # "sent"
    /\ rc' = [Answered(rc, r, {}) EXCEPT !.view[r.client] = r.data]
    /\ UNCHANGED <<dialogVars, rp>>

\* a select or an update fails: the catch block shows a toast
RequestFailed(r) ==
    /\ r \in BagToSet(rc.req)
    /\ rc' = Answered(rc, r, {})
    /\ UNCHANGED <<dialogVars, rp>>

\* "Mark as Collected" and "Complete": updateStatus up to the update; the
\* button is rendered for the status the tab displays
updateStatus(c, newStatus) ==
    /\ \/ rc.view[c] = "pending" /\ newStatus = "collected"
       \/ rc.view[c] = "collected" /\ newStatus = "completed"
    /\ BagCardinality(rc.req) < MaxRequests
    /\ rc' = Sent(rc, Request("write", c, newStatus))
    /\ UNCHANGED <<dialogVars, rp>>

\* the update is applied to the row with that id and answered without
\* error: toast, fetchData()
UpdateApplied(r) ==
    /\ r \in BagToSet(rc.req)
    /\ r.kind = "write"
    /\ rc' = [Answered(rc, r, {Request("select", r.client, "sent")})
                EXCEPT !.status = r.data]
    /\ UNCHANGED <<dialogVars, rp>>

NextReverse ==
    \/ \E c \in Clients : fetchData(c)
    \/ \E c \in Clients : classifyProduct(c)
    \/ \E r \in BagToSet(rc.req) : SelectRead(r)
    \/ \E r \in BagToSet(rc.req) : SelectDelivered(r)
    \/ \E r \in BagToSet(rc.req) : RequestFailed(r)
    \/ \E c \in Clients, newStatus \in {"collected", "completed"} :
          updateStatus(c, newStatus)
    \/ \E r \in BagToSet(rc.req) : UpdateApplied(r)

SpecReverse == Init /\ [][NextReverse]_vars

-----------------------------------------------------------------------------
(* SpecRetail: one retailer_products row and the tabs of RetailerDashboard *)

\* values typed into the "Initial Discount (%)" input
Discounts == {0 - 5, 0, 35}

\* toggleDiscount writing the flag but always a discount of 20
ToggledFieldsAlways20(currentDiscounted) ==
    [discount |-> 20, discounted |-> ~currentDiscounted]

\* the fields toggleDiscount writes
ToggledFields(currentDiscounted) ==
    [discount |-> IF currentDiscounted THEN 0 ELSE 20,
     discounted |-> ~currentDiscounted]

\* the fields addProduct inserts
AddedFields(discount) == [discount |-> discount, discounted |-> discount > 0]

\* fetchProducts up to the select (mount of the dashboard); the data of a
\* request on retailer_products is a list of rows: none for a select, the
\* rows read for its answer ("rows"), the fields to write for an insert or
\* an update
fetchProducts(c) ==
    /\ BagCardinality(rp.req) < MaxRequests
    /\ rp' = Sent(rp, Request("select", c, <<>>))
    /\ UNCHANGED <<dialogVars, rc>>

\* the database reads the table for a select
ProductsRead(r) ==
    /\ r \in BagToSet(rp.req)
    /\ r.kind = "select"
    /\ rp' = Answered(rp, r,
                {Request("rows", r.client,
                         [i \in 1..Len(rp.row) |->
                            [discount |-> rp.row[i].discount,
                             discounted |-> rp.row[i].discounted]])})
    /\ UNCHANGED <<dialogVars, rc>>

\* the rows arrive: setProducts
ProductsDelivered(r) ==
    /\ r \in BagToSet(rp.req)
    /\ r.kind = "rows"
    /\ rp' = [Answered(rp, r, {}) EXCEPT !.view[r.client] = r.data]
    /\ UNCHANGED <<dialogVars, rc>>

\* a select, an insert or an update fails: the catch block shows a toast
ProductRequestFailed(r) ==
    /\ r \in BagToSet(rp.req)
    /\ rp' = Answered(rp, r, {})
    /\ UNCHANGED <<dialogVars, rc>>

\* "Add Product": addProduct up to the insert
addProduct(c, discount) ==
    /\ rp.row = <<>>
    /\ \A r \in BagToSet(rp.req) : r.kind # "insert"
    /\ BagCardinality(rp.req) < MaxRequests
    /\ rp' = Sent(rp, Request("insert", c, <<AddedFields(discount)>>))
    /\ UNCHANGED <<dialogVars, rc>>

\* the insert is answered without error: toast, form reset, fetchProducts()
InsertApplied(r) ==
    /\ r \in BagToSet(rp.req)
    /\ r.kind = "insert"
    /\ rp' = [Answered(rp, r, {Request("select", r.client, <<>>)})
                EXCEPT !.row = <<[discount |-> r.data[1].discount,
                                  discounted |-> r.data[1].discounted,
                                  stale |-> FALSE]>>]
    /\ UNCHANGED <<dialogVars, rc>>

\* "Apply Discount" / "Remove Discount": toggleDiscount up to the update,
\* with the discounted flag the tab displays
toggleDiscount(c) ==
    /\ rp.view[c] # <<>>
    /\ BagCardinality(rp.req) < MaxRequests
    /\ rp' = Sent(rp, Request("update", c,
                               <<ToggledFields(rp.view[c][1].discounted)>>))
    /\ UNCHANGED <<dialogVars, rc>>

\* the update is applied to the row with that id and answered without
\* error: toast, fetchProducts(); stale records that the flag the tab
\* displayed, the opposite of the flag written, was no longer the flag of
\* the row
ToggleApplied(r) ==
    /\ r \in BagToSet(rp.req)
    /\ r.kind = "update"
    /\ rp' = [Answered(rp, r, {Request("select", r.client, <<>>)})
                EXCEPT !.row = <<[discount |-> r.data[1].discount,
                                  discounted |-> r.data[1].discounted,
                                  stale |-> r.data[1].discounted =
                                            rp.row[1].discounted]>>]
    /\ UNCHANGED <<dialogVars, rc>>

NextRetail ==
    \/ \E c \in Clients : fetchProducts(c)
    \/ \E r \in BagToSet(rp.req) : ProductsRead(r)
    \/ \E r \in BagToSet(rp.req) : ProductsDelivered(r)
    \/ \E r \in BagToSet(rp.req) : ProductRequestFailed(r)
    \/ \E c \in Clients, discount \in Discounts : addProduct(c, discount)
    \/ \E r \in BagToSet(rp.req) : InsertApplied(r)
    \/ \E c \in Clients : toggleDiscount(c)
    \/ \E r \in BagToSet(rp.req) : ToggleApplied(r)

SpecRetail == Init /\ [][NextRetail]_vars

-----------------------------------------------------------------------------
(* Properties of the label-scan flow (Spec) *)

\* the dates of a sequence
Range(s) == {s[k] : k \in 1..Len(s)}

StrictlyAscending(s) == \A k \in 1..(Len(s) - 1) : s[k] < s[k + 1]

\* the text and the dates of the scan whose last OCR pass returns chunk
ScanText(chunk) == up.text \o chunk
ScanDates(chunk) == parseDateFromText(ScanText(chunk))

\* the last OCR pass of a scan is pending
LastPassPending == up.pc = "ocr" /\ up.rot = NumRotations - 1

\* C1: when a label scan yields two or more distinct dates nothing is saved
\* automatically: the step that ends the scan inserts no row and starts no
\* save, the handler has returned, and the dialog holds every date found, in
\* ascending order, as the candidates to choose from; a row inserted by the
\* handler itself always comes from a scan with exactly one date.
MultipleCandidatesAwaitChoice ==
    /\ [][LastPassPending => \A chunk \in OcrChunks :
            (OcrLast(chunk) /\ Len(ScanDates(chunk)) >= 2)
            => /\ items' = items
               /\ saves' = saves
               /\ up'.pc = "idle"
               /\ ~up.orphan =>
                    /\ StrictlyAscending(dateCandidates')
                    /\ Range(dateCandidates') = Range(FoundDates(ScanText(chunk)))
                    /\ Len(dateCandidates') >= 2
                    /\ ~showManualEntry'
                    /\ up'.outcome = "choose"]_vars
    /\ [](\A r \in BagToSet(items) : r.via = "auto" => r.ncand = 1)

\* C1 witness: the dialog shows two or more candidates after a scan, and no
\* row has been inserted
AwaitingChoiceReached ==
    /\ mounted
    /\ up.outcome = "choose"
    /\ Len(dateCandidates) >= 2
    /\ items = EmptyBag

\* C2: when a label scan yields exactly one date the handler calls
\* saveItemToSupabase in the same step, with that date and the product name
\* extracted from the same text, and neither the candidate list nor the manual
\* entry is shown then or while the save is pending; the row inserted by that
\* save carries that name and date.
SingleCandidateAutoSaved ==
    /\ [][LastPassPending => \A chunk \in OcrChunks :
            (OcrLast(chunk) /\ Len(ScanDates(chunk)) = 1)
            => /\ up'.pc = "save"
               /\ up'.dates = ScanDates(chunk)
               /\ up'.name = extractProductName(ScanText(chunk))
               /\ ~up.orphan => (dateCandidates' = <<>> /\ ~showManualEntry')]_vars
    /\ [](up.pc = "save" /\ ~up.orphan
            => dateCandidates = <<>> /\ ~showManualEntry /\ isProcessing)
    /\ [][UploadInserted
            => \E r \in BagToSet(items') :
                 /\ items' = items (+) SetToBag({r})
                 /\ r.name = up.name
                 /\ r.expiry_date = up.dates[1]
                 /\ r.via = "auto"]_vars

\* C2 witness: the auto-save of a scan with one date is pending
AutoSavePending ==
    /\ mounted
    /\ up.pc = "save"
    /\ ~up.orphan
    /\ Len(up.dates) = 1

\* C3: when a label scan yields no date the handler returns normally with
\* the manual entry shown, no candidates, no date in the manual input, no row
\* inserted and no save started.
NoCandidateNeedsManualEntry ==
    [][(LastPassPending /\ ~up.orphan) => \A chunk \in OcrChunks :
         (OcrLast(chunk) /\ Len(ScanDates(chunk)) = 0)
         => /\ showManualEntry'
            /\ dateCandidates' = <<>>
            /\ manualDate' = <<>>
            /\ ~isProcessing'
            /\ items' = items
            /\ saves' = saves
            /\ up'.pc = "idle"
            /\ up'.outcome = "manual"]_vars

\* C3 witness: the manual entry is shown after a scan without dates
ManualEntryAfterEmptyScan ==
    /\ mounted
    /\ up.outcome = "manual"
    /\ showManualEntry
    /\ dateCandidates = <<>>
    /\ manualDate = <<>>
    /\ items = EmptyBag

\* C4: "None of these" leaves the manual entry shown with an empty candidate
\* list, inserts no row and starts no save; after a scan that asked for a
\* choice, a row is inserted only by a save the user started by selecting a
\* candidate or submitting a manual date.
RejectAllGoesToManualEntry ==
    /\ [][NoneOfThese
            => /\ showManualEntry'
               /\ dateCandidates' = <<>>
               /\ items' = items
               /\ saves' = saves
               /\ up' = up]_vars
    /\ [][(up.outcome = "choose" /\ items' # items)
            => \E t \in BagToSet(saves) :
                 /\ t.src \in {"select", "manual"}
                 /\ SaveInserted(t)]_vars

\* C4 witness: the manual entry is shown after the candidates of a scan were
\* rejected
ManualEntryAfterReject ==
    /\ mounted
    /\ up.outcome = "choose"
    /\ showManualEntry
    /\ dateCandidates = <<>>

\* C5: a scan abandoned by closing the dialog while its OCR was pending
\* inserts no row.
AbandonedScanPersistsNothing ==
    \A r \in BagToSet(items) : ~r.abandoned

-----------------------------------------------------------------------------
(* Properties of parseDateFromText (SpecParse) *)

\* the matches of the call that were added to foundDates
Pushed == {k \in 1..Len(parseCall.trace) : parseCall.trace[k].pushed}

\* C6: the list parseDateFromText returns is strictly ascending, so holds no
\* date twice, and holds exactly the dates that were added to foundDates.
ParsedDatesAscendingDistinct ==
    parseCall.done =>
        /\ StrictlyAscending(parseCall.dates)
        /\ Range(parseCall.dates) =
              {parseCall.trace[k].resolved[1] : k \in Pushed}

\* C6 witness: two matches of different patterns gave the same date and the
\* list holds it once
DuplicateMatchesCollapsed ==
    /\ parseCall.done
    /\ Len(parseCall.dates) = 1
    /\ \E j, k \in Pushed :
         /\ parseCall.trace[j].pattern # parseCall.trace[k].pattern
         /\ parseCall.trace[j].line # parseCall.trace[k].line
         /\ parseCall.trace[j].resolved = parseCall.trace[k].resolved

\* C7: every date parseDateFromText returns has a year strictly between 2000
\* and 2100.
ParsedYearsPlausible ==
    parseCall.done =>
        \A t \in Range(parseCall.dates) :
            GetFullYear(t) > MinYear /\ GetFullYear(t) < MaxYear

\* C8: the candidate of a manufacture-labelled match is the parsed
\* manufacture date plus exactly 365 days.
ShelfLifeIs365Days ==
    parseCall.done =>
        \A k \in Pushed :
            isMfgPattern(parseCall.trace[k].pattern)
            => parseCall.trace[k].resolved[1] = parseCall.trace[k].parsed[1] + 365

\* C9: for a text whose only date-shaped substring is a manufacture-labelled
\* date, the manufacture date itself, without the offset, is no candidate.
ManufactureDateNeverCandidate ==
    (/\ parseCall.done
     /\ Len(parseCall.text) = 1
     /\ parseCall.text[1].kind = "date"
     /\ parseCall.text[1].label = "mfg")
    => \A k \in 1..Len(parseCall.trace) :
          (/\ isMfgPattern(parseCall.trace[k].pattern)
           /\ parseCall.trace[k].parsed # <<>>)
          => parseCall.trace[k].parsed[1] \notin Range(parseCall.dates)

\* C10: a resolved date is kept exactly when it is not earlier than today
\* minus 30 days.
KeptIffWithin30Days ==
    parseCall.done =>
        \A k \in 1..Len(parseCall.trace) :
            parseCall.trace[k].resolved # <<>>
            => (parseCall.trace[k].pushed
                  <=> parseCall.trace[k].resolved[1] >= TodayDay - RecencyDays)

\* the captured numbers of match k of the call
CapturesOf(k) == Captures(parseCall.trace[k].pattern, parseCall.trace[k].line)

\* C11: a captured year of two digits YY becomes 2000 + YY when YY <= 50 and
\* 1900 + YY when YY >= 51 (the current century is 2000); a captured year of
\* four digits is used as it is.
TwoDigitYearExpanded ==
    parseCall.done =>
        \A k \in 1..Len(parseCall.trace) :
            LET c == CapturesOf(k)
            IN  /\ (c.ylen = 2 /\ c.year <= 50)
                      => parseCall.trace[k].year = 2000 + c.year
                /\ (c.ylen = 2 /\ c.year >= 51)
                      => parseCall.trace[k].year = 1900 + c.year
                /\ c.ylen = 4 => parseCall.trace[k].year = c.year

\* C11 witness: one text with the years 50 and 51, expanded to 2050 and 1951
YearPivotReached ==
    /\ parseCall.done
    /\ \E j, k \in 1..Len(parseCall.trace) :
         /\ CapturesOf(j).ylen = 2 /\ CapturesOf(j).year = 50
         /\ parseCall.trace[j].year = 2050
         /\ CapturesOf(k).ylen = 2 /\ CapturesOf(k).year = 51
         /\ parseCall.trace[k].year = 1951

\* C12: a match is read with its first number as the day and its second as
\* the month whenever new Date accepts that reading; only otherwise it is
\* read with the two swapped; when new Date accepts neither reading (both
\* numbers above 12, or a zero) the match gives no candidate.  Two numbers
\* from 1 to 12 are always read as day-month.
DayMonthReadingFirst ==
    parseCall.done =>
        \A k \in 1..Len(parseCall.trace) :
            LET c    == CapturesOf(k)
                o    == parseCall.trace[k]
                asDM == NewDate(o.year, c.month, c.day)
                asMD == NewDate(o.year, c.day, c.month)
            IN  /\ asDM # <<>> => o.parsed = asDM
                /\ (asDM = <<>> /\ asMD # <<>>) => o.parsed = asMD
                /\ (asDM = <<>> /\ asMD = <<>>)
                      => (o.parsed = <<>> /\ o.resolved = <<>> /\ ~o.pushed)
                /\ (c.day \in 1..12 /\ c.month \in 1..12)
                      => o.parsed = <<MakeDay(o.year, c.month, c.day)>>
                /\ ((c.day > 12 /\ c.month > 12) \/ c.day = 0 \/ c.month = 0)
                      => (o.parsed = <<>> /\ ~o.pushed)

\* C12 witness: one text with a match read as month-day because its second
\* number is no month, and a match of two different numbers up to 12 read
\* as day-month
SwappedReadingReached ==
    /\ parseCall.done
    /\ \E j, k \in 1..Len(parseCall.trace) :
         /\ CapturesOf(k).month > 12
         /\ parseCall.trace[k].pushed
         /\ parseCall.trace[k].parsed =
               <<MakeDay(parseCall.trace[k].year, CapturesOf(k).day,
                         CapturesOf(k).month)>>
         /\ CapturesOf(j).day \in 1..12
         /\ CapturesOf(j).month \in 1..12
         /\ CapturesOf(j).day # CapturesOf(j).month
         /\ parseCall.trace[j].parsed =
               <<MakeDay(parseCall.trace[j].year, CapturesOf(j).month,
                         CapturesOf(j).day)>>

\* day d of month m of year y exists in the calendar
IsCalendarDate(y, m, d) == m \in 1..12 /\ d >= 1 /\ d <= DaysInMonth(y, m)

\* C13: for a match with a 4-digit year strictly between 2000 and 2100, when
\* day, month and year denote a date of the calendar the parsed date is that
\* date, and when they denote none in either reading no date is parsed.
ResolvedIsTheWrittenDate ==
    parseCall.done =>
        \A k \in 1..Len(parseCall.trace) :
            LET c == CapturesOf(k)
                o == parseCall.trace[k]
            IN  (c.ylen = 4 /\ c.year > MinYear /\ c.year < MaxYear) =>
                  /\ IsCalendarDate(c.year, c.month, c.day)
                        => /\ o.parsed # <<>>
                           /\ CivilFromDays(o.parsed[1]) =
                                 [y |-> c.year, m |-> c.month, d |-> c.day]
                  /\ (/\ ~IsCalendarDate(c.year, c.month, c.day)
                      /\ ~IsCalendarDate(c.year, c.day, c.month))
                        => o.parsed = <<>>

\* C14: every match of each of the five patterns anywhere in the text is
\* processed, whatever the other patterns matched: it has its entry among
\* the processed matches, and when it passes the filters its date is in the
\* returned list.
EveryMatchProcessed ==
    parseCall.done =>
        \A i \in 1..Len(parseCall.text) : \A p \in 1..NumPatterns :
            PatternMatches(p, parseCall.text[i]) =>
                LET o == MatchOutcome(p, parseCall.text[i])
                IN  /\ \E k \in 1..Len(parseCall.trace) : parseCall.trace[k] = o
                    /\ o.pushed => o.resolved[1] \in Range(parseCall.dates)

\* C14 witness: the labelled-expiry pattern matches one line, another line is
\* matched by the 2-digit-year pattern alone, and both dates are returned
LowerPriorityMatchKept ==
    /\ parseCall.done
    /\ Len(parseCall.dates) = 2
    /\ \E i, j \in 1..Len(parseCall.text) :
         /\ PatternMatches(1, parseCall.text[i])
         /\ PatternMatches(NumPatterns, parseCall.text[j])
         /\ \A p \in 1..(NumPatterns - 1) : ~PatternMatches(p, parseCall.text[j])
         /\ MatchOutcome(1, parseCall.text[i]).pushed
         /\ MatchOutcome(NumPatterns, parseCall.text[j]).pushed
         /\ MatchOutcome(1, parseCall.text[i]).resolved[1] \in Range(parseCall.dates)
         /\ MatchOutcome(NumPatterns, parseCall.text[j]).resolved[1]
               \in Range(parseCall.dates)
         /\ MatchOutcome(1, parseCall.text[i]).resolved
               # MatchOutcome(NumPatterns, parseCall.text[j]).resolved

\* a sequence in the order given by the permutation f of its indices
Permuted(s, f) == [k \in 1..Len(s) |-> s[f[k]]]

\* C15: the list returned is the same for every order in which the dates
\* found could have been pushed: deduplicating and sorting any permutation of
\* foundDates gives the list the call returned.
DedupSortOrderIndependent ==
    parseCall.done =>
        LET found == FoundDates(parseCall.text)
        IN  \A f \in Permutations(1..Len(found)) :
                uniqueDates(Permuted(found, f)) = parseCall.dates

\* C15 witness: the dates were found out of order, a later date before an
\* earlier one, and one date twice
FoundOutOfOrder ==
    /\ parseCall.done
    /\ LET found == FoundDates(parseCall.text)
       IN  \E i, j, k \in 1..Len(found) :
               i < j /\ found[i] > found[j] /\ k # i /\ found[k] = found[i]

\* a date-shaped line whose numbers new Date accepts in neither reading
Unparseable(line) ==
    /\ line.kind = "date"
    /\ LET c    == Captures(IF line.yfirst THEN 3 ELSE 4, line)
           year == ExpandYear(c.year, c.ylen)
       IN  NewDate(year, c.month, c.day) = <<>> /\ NewDate(year, c.day, c.month) = <<>>

\* C20: a match that is no date is dropped without a trace: it gives no
\* candidate, and the list returned, hence the branch handleImageUpload
\* takes on it, is the one the text without the unparseable lines gives.
UnparseableDateDropped ==
    parseCall.done =>
        LET rest == SelectSeq(parseCall.text, LAMBDA l : ~Unparseable(l))
        IN  /\ \A k \in 1..Len(parseCall.trace) :
                  parseCall.trace[k].parsed = <<>> => ~parseCall.trace[k].pushed
            /\ \A i \in 1..Len(parseCall.text) :
                  Unparseable(parseCall.text[i]) =>
                      \E k \in 1..Len(parseCall.trace) :
                          /\ parseCall.trace[k].line = parseCall.text[i]
                          /\ parseCall.trace[k].parsed = <<>>
            /\ parseCall.dates = parseDateFromText(rest)
            /\ Disposition(parseCall.dates) = Disposition(parseDateFromText(rest))

\* C20 witness: an unparseable date comes first in the text, a date after it
\* is the one candidate
DateAfterUnparseableKept ==
    /\ parseCall.done
    /\ Len(parseCall.text) = 2
    /\ Unparseable(parseCall.text[1])
    /\ ~Unparseable(parseCall.text[2])
    /\ Len(parseCall.dates) = 1
    /\ Disposition(parseCall.dates) = "auto"

-----------------------------------------------------------------------------
(* Properties of the retailer tables (SpecReverse, SpecRetail) *)

\* C28: the status of a reverse_commerce_items row changes only from
\* pending to collected and from collected to completed.
StatusOnlyMovesForward ==
    [][rc'.status # rc.status =>
          <<rc.status, rc'.status>> \in {<<"none", "pending">>,
                                         <<"pending", "collected">>,
                                         <<"collected", "completed">>}]_vars

\* C29: a retailer_products row written by addProduct or toggleDiscount has
\* discounted = true exactly when its discount is above 0.
DiscountedIffDiscount ==
    \A i \in 1..Len(rp.row) : rp.row[i].discounted <=> rp.row[i].discount > 0

\* C29 witness: the row was written by a toggle whose tab displayed a
\* discounted flag the row no longer had
StaleToggleWritten ==
    /\ Len(rp.row) = 1
    /\ rp.row[1].stale
    /\ DiscountedIffDiscount

-----------------------------------------------------------------------------
(* Properties of the label flow with one attempt at a time (SpecAttempt) *)

\* C23: one label-scan attempt persists at most one item.  In SpecAttempt
\* all rows come from one attempt, so the table holds at most one row.
OneRowPerAttempt == BagCardinality(items) <= 1

\* C30: a handleImageUpload call that has set isProcessing is followed by a
\* state in which isProcessing is false, and when preprocessing or OCR
\* throws in an open dialog the call ends in manual entry with isProcessing
\* false.
UploadEndsProcessing ==
    /\ isProcessing ~> ~isProcessing
    /\ [][(PreprocessFailed \/ OcrFailed) /\ ~up.orphan =>
             showManualEntry' /\ ~isProcessing' /\ dateCandidates' = <<>>]_vars

\* C30 witness: an upload whose preprocessing or OCR threw has ended in
\* manual entry
OcrErrorEndedInManualEntry ==
    /\ mounted
    /\ up.pc = "idle"
    /\ up.outcome = "error"
    /\ showManualEntry
    /\ ~isProcessing

\* C27: every row the scanner inserts has expiry_date strictly after
\* purchase_date.
ExpiryAfterPurchase ==
    \A r \in BagToSet(items) : r.expiry_date > r.purchase_date

\* a save that a click has just started
Clicked(t) ==
    /\ ~t.orphan
    /\ CopiesIn(t, saves') > CopiesIn(t, saves)

\* C24: the product name a click on a candidate or on "Add Item" hands to
\* saveItemToSupabase is the name read from the text of the scan attempt
\* whose view is clicked, or the placeholder.
SavedNameFromSameAttempt ==
    [][\A t \in BagToSet(saves') :
          Clicked(t) => t.name \in {up.name, Placeholder}]_vars

-----------------------------------------------------------------------------
(* Properties of the barcode flow (SpecBarcode, SpecSession) *)

\* C22: the product handed to onScanSuccess by "Use This Product" is the
\* product of the barcode handed over with it.
EmittedProductOfItsBarcode ==
    \A e \in emitted : e.product = ProductOf(e.barcode)

\* fetchNutritionData(barcode) returns to a handleScanSuccess of the mounted
\* dialog: from the cache, with an answer, or with null
FetchCompletes(barcode) ==
    \/ barcode \in nutritionCache /\ ScanSuccess(barcode)
    \/ \E t \in BagToSet(scans) :
          /\ ~t.orphan
          /\ t.barcode = barcode
          /\ FetchFound(t) \/ FetchMissing(t)

\* C26: when fetchNutritionData(barcode) has completed, nutritionData is null
\* or the nutrition of that barcode.
NutritionOfFetchedBarcode ==
    [][\A barcode \in Barcodes :
          FetchCompletes(barcode) =>
              nutritionData' \in {"null", NutritionOf(barcode)}]_vars

\* C25: a row inserted by the label path (auto-save, selected candidate,
\* manual date) has no barcode and no nutrition values.
LabelRowsCarryNoNutrition ==
    \A r \in BagToSet(items) : r.barcode = "null" /\ r.nutrition = "null"

-----------------------------------------------------------------------------
(* Properties of the status rule (SpecStatus) *)

\* whole days from now to midnight UTC of day t: the elapsed time in days,
\* its fraction dropped
DaysLeft(t) ==
    IF t > TodayDay /\ env.late THEN t - TodayDay - 1 ELSE t - TodayDay

\* C16: calculateStatus gives "expired" exactly for daysLeft < 0, "use-soon"
\* exactly for 0 <= daysLeft <= 3 and "safe" exactly for daysLeft > 3, so
\* exactly one of the three for every date; with today 2024-06-10 it gives
\* use-soon for 2024-06-12, expired for 2024-06-08 and safe for 2024-06-20.
StatusByDaysLeft ==
    statusCall.done =>
        LET d == DaysLeft(statusCall.date)
            s == statusCall.scanner
        IN  /\ s \in {"expired", "use-soon", "safe"}
            /\ s = "expired" <=> d < 0
            /\ s = "use-soon" <=> (d >= 0 /\ d <= 3)
            /\ s = "safe" <=> d > 3
            /\ statusCall.date = MakeDay(2024, 6, 12) => s = "use-soon"
            /\ statusCall.date = MakeDay(2024, 6, 8) => s = "expired"
            /\ statusCall.date = MakeDay(2024, 6, 20) => s = "safe"

\* C16 witness: a date exactly three whole days ahead is classified use-soon
UseSoonAtThreeDays ==
    /\ statusCall.done
    /\ DaysLeft(statusCall.date) = 3
    /\ statusCall.scanner = "use-soon"

\* the class of a dashboard status: critical and warning are its two
\* near-expiry statuses
DashboardClass(status) ==
    IF status \in {"critical", "warning"} THEN "use-soon" ELSE status

\* C17: the dashboard's getItemStatus puts every expiry date in the class
\* calculateStatus puts it in: expired, near expiry (use-soon), or safe.
StatusRuleSameEverywhere ==
    statusCall.done => DashboardClass(statusCall.dashboard) = statusCall.scanner

-----------------------------------------------------------------------------
(* Properties of extractProductName (SpecName) *)

\* the lines of the text that qualify as a name: 4 to 49 characters left
\* after the cleaning, and not digits only
Qualifying ==
    {i \in 1..Len(parseCall.text) :
        /\ Len(CleanedLine(parseCall.text[i])) >= 4
        /\ Len(CleanedLine(parseCall.text[i])) <= 49
        /\ ~parseCall.text[i].numeric}

\* C18: extractProductName returns the first qualifying line of the cleaned
\* text, and "Scanned Product" exactly when no line qualifies.
FirstQualifyingLineIsName ==
    parseCall.done =>
        /\ Qualifying = {} => parseCall.name = "Scanned Product"
        /\ \A i \in Qualifying :
              (\A j \in Qualifying : i <= j)
              => parseCall.name = CleanedLine(parseCall.text[i])
        /\ Qualifying # {} => parseCall.name # "Scanned Product"

\* C18 witness: the first line is too short or too long or a number, the
\* second is the name
SecondLineIsName ==
    /\ parseCall.done
    /\ Len(parseCall.text) = 2
    /\ Qualifying = {2}
    /\ parseCall.text[1].kind = "words"
    /\ parseCall.name = parseCall.text[2].txt

\* C19: the product name is never a line that is a date one of the five
\* patterns matched and that gave a candidate.
NameIsNoCandidateDate ==
    parseCall.done =>
        \A i \in 1..Len(parseCall.text) :
            (/\ parseCall.text[i].kind = "date"
             /\ \E p \in 1..NumPatterns :
                   /\ PatternMatches(p, parseCall.text[i])
                   /\ MatchOutcome(p, parseCall.text[i]).pushed)
            => parseCall.name # parseCall.text[i].txt

====
